---- MODULE Spec2Model ----
(***************************************************************************)
(* A model of the arXiv query client (arxiv_http_client.py) and of its     *)
(* command-line dispatcher (main.py).                                      *)
(*                                                                         *)
(* Python values are records carrying their type, so that None, a str, a   *)
(* list, a dict and an ElementTree Element can be told apart the way the   *)
(* interpreter tells them apart (an attribute access on None raises        *)
(* AttributeError, str.join on a non-str item raises TypeError).  A str is *)
(* its sequence of characters.                                             *)
(***************************************************************************)
EXTENDS Integers, Sequences, FiniteSets, TLC

VARIABLES
  call,         \* the operation that has run ("none" before it)
  steps,        \* how many times it has run
  text,         \* the str under normalization
  entry,        \* the entry Element handed to _parse_entry
  query,        \* search: the query argument
  sort_by,      \* search: the sort_by argument
  max_results,  \* search: the max_results argument
  arxiv_id,     \* get: the arxiv_id argument
  response,     \* what the network and the XML parser answer
  request,      \* the URL passed to urlopen (None: no request made)
  ret,          \* the value returned by the client operation (None: absent)
  raised,       \* an exception left the operation
  out           \* the lines printed on standard output

vars == <<call, steps, text, entry, query, sort_by, max_results, arxiv_id,
          response, request, ret, raised, out>>

(***************************************************************************)
(* Bounds of the model.                                                    *)
(***************************************************************************)
MaxTextLen == 4
MaxIdLen == 2
MaxQueryLen == 1
MaxAuthors == 3
MaxLinks == 2
MaxEntries == 2

(***************************************************************************)
(* Python values.                                                          *)
(***************************************************************************)
None == [type |-> "NoneType"]

str(cs) == [type |-> "str", chars |-> cs]

list(xs) == [type |-> "list", items |-> xs]

\* All sequences over S of length at most n.
SeqsUpTo(S, n) == UNION {[1..k -> S] : k \in 0..n}

(***************************************************************************)
(* str methods used by the client.                                         *)
(***************************************************************************)
\* The characters str.strip() removes (the ones of the model's alphabet).
Whitespace == {" ", "\n", "\t", "\r"}

RECURSIVE lstrip(_)
lstrip(cs) ==
  IF cs # <<>> /\ Head(cs) \in Whitespace THEN lstrip(Tail(cs)) ELSE cs

RECURSIVE rstrip(_)
rstrip(cs) ==
  IF cs # <<>> /\ cs[Len(cs)] \in Whitespace
  THEN rstrip(SubSeq(cs, 1, Len(cs) - 1)) ELSE cs

\* s.strip()
strip(s) == str(lstrip(rstrip(s.chars)))

\* s.replace(old, new), for one-character old and new
replace(s, old, new) ==
  str([i \in 1..Len(s.chars) |-> IF s.chars[i] = old THEN new ELSE s.chars[i]])

\* s.split(sep), for a one-character sep: the list of the pieces
RECURSIVE splitChars(_, _, _)
splitChars(cs, sep, cur) ==
  IF cs = <<>> THEN <<cur>>
  ELSE IF Head(cs) = sep THEN <<cur>> \o splitChars(Tail(cs), sep, <<>>)
  ELSE splitChars(Tail(cs), sep, Append(cur, Head(cs)))

split(s, sep) == splitChars(s.chars, sep, <<>>)

\* A mis-stripping that only knows the blank.
normalize_blank_only(s) ==
  LET RECURSIVE l(_)
      l(cs) == IF cs # <<>> /\ Head(cs) = " " THEN l(Tail(cs)) ELSE cs
      RECURSIVE r(_)
      r(cs) == IF cs # <<>> /\ cs[Len(cs)] = " "
               THEN r(SubSeq(cs, 1, Len(cs) - 1)) ELSE cs
  IN replace(str(l(r(s.chars))), "\n", " ")

\* .strip().replace("\n"," ") of lines 14 and 15
normalize(s) == replace(strip(s), "\n", " ")

(***************************************************************************)
(* xml.etree.ElementTree: an Element has a tag, a text (None when the      *)
(* element has no character data), attributes and child elements.          *)
(***************************************************************************)
NoAttrib == [title |-> None, href |-> None]

Element(tag, txt, attrib, children) ==
  [type |-> "Element", tag |-> tag, text |-> txt, attrib |-> attrib,
   children |-> children]

\* elem.find(tag): the first child with that tag, or None
find(elem, tag) ==
  LET hits == SelectSeq(elem.children, LAMBDA c : c.tag = tag)
  IN IF hits = <<>> THEN None ELSE hits[1]

\* elem.findall(tag): the children with that tag, in document order
findall(elem, tag) == SelectSeq(elem.children, LAMBDA c : c.tag = tag)

\* elem.get(key): the attribute's value, or None
get(elem, key) == elem.attrib[key]

(***************************************************************************)
(* _parse_entry                                                            *)
(***************************************************************************)
pdf == str(<<"p", "d", "f">>)

\* Takes the piece before the first "/" instead of the one after the last.
arxiv_id_first_piece(arxiv_id_full) == str(split(arxiv_id_full, "/")[1])

\* line 13: arxiv_id_full.split("/")[-1]
arxiv_id_of(arxiv_id_full) ==
  LET pieces == split(arxiv_id_full, "/") IN str(pieces[Len(pieces)])

\* Keeps a slot (None) for an author without a name child.
authors_unfiltered(e) ==
  LET as == findall(e, "author")
  IN list([i \in 1..Len(as) |->
            IF find(as[i], "name") = None THEN None
            ELSE find(as[i], "name").text])

\* line 17: the list comprehension over the author children
authors_of(e) ==
  LET named == SelectSeq(findall(e, "author"),
                         LAMBDA a : find(a, "name") # None)
  IN list([i \in 1..Len(named) |-> find(named[i], "name").text])

\* lines 18-22: the href of the first link whose title is "pdf", else ""
pdf_url_of(e) ==
  LET pdfs == SelectSeq(findall(e, "link"), LAMBDA l : get(l, "title") = pdf)
  IN IF pdfs = <<>> THEN str(<<>>) ELSE get(pdfs[1], "href")

\* The statements of the try block that raise (AttributeError): an
\* attribute access on the None that find returned (lines 12, 14, 15, 16)
\* or a str method called on a None text (lines 13, 14, 15).
parse_raises(e) ==
  \/ find(e, "id") = None
  \/ find(e, "id").text = None
  \/ find(e, "title") = None
  \/ find(e, "title").text = None
  \/ find(e, "summary") = None
  \/ find(e, "summary").text = None
  \/ find(e, "published") = None

_parse_entry(e) ==
  IF parse_raises(e) THEN None
  ELSE [type |-> "dict",
        arxiv_id |-> arxiv_id_of(find(e, "id").text),
        title |-> normalize(find(e, "title").text),
        authors |-> authors_of(e),
        summary |-> normalize(find(e, "summary").text),
        published_date |-> find(e, "published").text,
        pdf_url |-> pdf_url_of(e)]

(***************************************************************************)
(* urllib.parse.urlencode, as it acts on the characters of the model's     *)
(* alphabet: quote_plus keeps letters, digits and "_.-~", turns a blank    *)
(* into "+", percent-encodes the UTF-8 bytes of any other character, and   *)
(* raises UnicodeEncodeError on a lone surrogate, which has no UTF-8       *)
(* encoding.                                                               *)
(***************************************************************************)
\* A lone surrogate code point, as os.fsdecode puts in sys.argv for a byte
\* that is not UTF-8.
Surrogate == "\\udc80"

Unreserved ==
  {"a", "b", "c", "d", "e", "f", "g", "h", "i", "j", "k", "l", "m", "n",
   "o", "p", "q", "r", "s", "t", "u", "v", "w", "x", "y", "z",
   "A", "B", "D", "R", "S", "U",
   "0", "1", "2", "3", "4", "5", "6", "7", "8", "9", "_", ".", "-", "~"}

quote_char(c) ==
  CASE c \in Unreserved -> <<c>>
    [] c = " " -> <<"+">>
    [] c = ":" -> <<"%", "3", "A">>
    [] c = "/" -> <<"%", "2", "F">>

RECURSIVE quote_plus(_)
quote_plus(cs) ==
  IF cs = <<>> THEN <<>> ELSE quote_char(Head(cs)) \o quote_plus(Tail(cs))

\* s.encode("utf-8") raises UnicodeEncodeError
encode_raises(s) == \E i \in 1..Len(s.chars) : s.chars[i] = Surrogate

\* str(n) for a natural number
RECURSIVE digits(_)
digits(n) ==
  LET d == <<"0", "1", "2", "3", "4", "5", "6", "7", "8", "9">>[(n % 10) + 1]
  IN IF n < 10 THEN <<d>> ELSE Append(digits(n \div 10), d)

\* urlencode(params) for a sequence of <<key, value>> pairs of str
RECURSIVE urlencode(_)
urlencode(params) ==
  IF params = <<>> THEN <<>>
  ELSE LET kv == quote_plus(params[1][1].chars) \o <<"=">>
                 \o quote_plus(params[1][2].chars)
       IN IF Len(params) = 1 THEN kv
          ELSE kv \o <<"&">> \o urlencode(Tail(params))

urlencode_raises(params) ==
  \E i \in 1..Len(params) : encode_raises(params[i][1]) \/ encode_raises(params[i][2])

base_url ==
  <<"h", "t", "t", "p", ":", "/", "/", "e", "x", "p", "o", "r", "t", ".", "a", "r", "x", "i", "v", ".", "o", "r", "g", "/", "a", "p", "i", "/", "q", "u", "e", "r", "y", "?">>

\* lines 37-42
search_params(q, sb, mr) ==
  << <<str(<<"s", "e", "a", "r", "c", "h", "_", "q", "u", "e", "r", "y">>), q>>,
     <<str(<<"s", "o", "r", "t", "B", "y">>), sb>>,
     <<str(<<"s", "t", "a", "r", "t">>), str(<<"0">>)>>,
     <<str(<<"m", "a", "x", "_", "r", "e", "s", "u", "l", "t", "s">>), str(digits(mr))>> >>

\* line 60
details_params(id) == << <<str(<<"i", "d", "_", "l", "i", "s", "t">>), id>> >>

(***************************************************************************)
(* The network and the XML parser.  A request ends in one of: urlopen      *)
(* raising (URLError, HTTPError), decode("utf-8") raising, ET.fromstring   *)
(* raising ParseError, or a root element whose descendants contain the     *)
(* feed's entry elements in document order.                                *)
(***************************************************************************)
Failure(kind) == [kind |-> kind, entries |-> <<>>]

Feed(entries) == [kind |-> "feed", entries |-> entries]

\* Stops at the first entry that fails to parse.
search_results_abort(entries) ==
  LET RECURSIVE loop(_)
      loop(es) == IF es = <<>> \/ _parse_entry(es[1]) = None THEN <<>>
                  ELSE <<_parse_entry(es[1])>> \o loop(Tail(es))
  IN list(loop(entries))

\* lines 49-53: the loop over root.findall(".//entry")
RECURSIVE search_loop(_, _)
search_loop(entries, results) ==
  IF entries = <<>> THEN results
  ELSE LET parsed == _parse_entry(Head(entries))
       IN search_loop(Tail(entries),
                      IF parsed # None THEN Append(results, parsed)
                      ELSE results)

search_results(entries) == list(search_loop(entries, <<>>))

\* Looks for the first entry that parses, instead of parsing the first.
details_result_first_good(entries) ==
  LET good == SelectSeq(entries, LAMBDA e : _parse_entry(e) # None)
  IN IF good = <<>> THEN None ELSE _parse_entry(good[1])

\* lines 67-69: root.find(".//entry") and its parse
details_result(entries) ==
  IF entries # <<>> THEN _parse_entry(entries[1]) ELSE None

(***************************************************************************)
(* main.py: what the dispatcher prints.  A printed line is its format      *)
(* string and the characters substituted into it.                          *)
(***************************************************************************)
Line(fmt, args) == [fmt |-> fmt, args |-> args]

\* The display limit of the summary (main.py line 36).
SummaryDisplayLimit == 200

\* f"{v}" for a str or None
format(v) == IF v = None THEN <<"N", "o", "n", "e">> ELSE v.chars

\* sep.join(items) raises TypeError on an item that is not a str
join_raises(items) == \E i \in 1..Len(items) : items[i].type # "str"

RECURSIVE join(_, _)
join(sep, items) ==
  IF items = <<>> THEN <<>>
  ELSE IF Len(items) = 1 THEN items[1].chars
  ELSE items[1].chars \o sep \o join(sep, Tail(items))

\* main.py lines 30-31 / 45-46
head_lines(paper) ==
  << Line("  ID: {}", <<format(paper.arxiv_id)>>),
     Line("  Title: {}", <<format(paper.title)>> ) >>

\* main.py lines 32-34 / 47-49
tail_lines(paper) ==
  << Line("  Authors: {}", <<join(<<",", " ">>, paper.authors.items)>>),
     Line("  Published: {}", <<format(paper.published_date)>>),
     Line("  PDF: {}", <<format(paper.pdf_url)>>) >>

\* main.py lines 35-36
search_summary_line(paper) ==
  IF Len(paper.summary.chars) > SummaryDisplayLimit
  THEN Line("  Summary: {}...",
            <<SubSeq(paper.summary.chars, 1, SummaryDisplayLimit)>>)
  ELSE Line("{}", <<paper.summary.chars>>)

\* main.py lines 28-36: the lines printed, and whether the TypeError of
\* line 32 ended the loop
RECURSIVE render_papers(_, _)
render_papers(papers, i) ==
  IF papers = <<>> THEN [lines |-> <<>>, raised |-> FALSE]
  ELSE LET paper == Head(papers)
           first == <<Line("--- Result {} ---", <<digits(i + 1)>>)>>
                    \o head_lines(paper)
       IN IF join_raises(paper.authors.items)
          THEN [lines |-> first, raised |-> TRUE]
          ELSE LET rest == render_papers(Tail(papers), i + 1)
               IN [lines |-> first \o tail_lines(paper)
                             \o <<search_summary_line(paper)>> \o rest.lines,
                   raised |-> rest.raised]

\* main.py lines 44-51
render_details(paper) ==
  LET first == <<Line("--- Paper Details ---", <<>>)>> \o head_lines(paper)
  IN IF join_raises(paper.authors.items)
     THEN [lines |-> first, raised |-> TRUE]
     ELSE [lines |-> first \o tail_lines(paper)
                     \o <<Line("  Summary: {}", <<paper.summary.chars>>)>>,
           raised |-> FALSE]

search_banner ==
  Line("Searching arXiv for: '{}', sort_by: {}, max_results: {}",
       <<query.chars, sort_by.chars, digits(max_results)>>)

search_not_found ==
  Line("No papers found or an error occurred during the search.", <<>>)

details_banner == Line("Fetching details for arXiv ID: {}", <<arxiv_id.chars>>)

details_not_found ==
  Line("Could not retrieve details for arXiv ID '{}', or the ID is invalid.",
       <<arxiv_id.chars>>)

(***************************************************************************)
(* The inputs.                                                             *)
(***************************************************************************)
TextElem(tag, txt) == Element(tag, txt, NoAttrib, <<>>)

Link(title, href) ==
  Element("link", None, [title |-> title, href |-> href], <<>>)

Author(children) == Element("author", None, NoAttrib, children)

MkEntry(ids, titles, summaries, publisheds, authors, links) ==
  Element("entry", None, NoAttrib,
          ids \o titles \o summaries \o publisheds \o authors \o links)

\* No such child, or one child with one of the texts.
Optional(tag, texts) == {<<>>} \cup {<<TextElem(tag, t)>> : t \in texts}

LegacyIdFull == str(<<"h", "t", "t", "p", ":", "/", "/", "a", "r", "x", "i", "v", ".", "o", "r", "g", "/", "a", "b", "s", "/", "h", "e", "p", "-", "e", "x", "/", "0", "3", "0", "7", "0", "1", "5", "v", "1">>)

IdTexts ==
  {None, LegacyIdFull} \cup {str(cs) : cs \in SeqsUpTo({"a", "/"}, MaxIdLen)}

TitleTexts == {None, str(<<" ", "a", "\n", "b", " ">>)}

SummaryTexts == {None, str(<<"s", "\n">>)}

PublishedTexts == {None, str(<<"2", "0", "0", "3">>)}

AuthorElems ==
  { Author(<<TextElem("name", str(<<"A">>))>>),
    Author(<<TextElem("name", str(<<"B">>))>>),
    Author(<<TextElem("name", None)>>),
    Author(<<>>) }

LinkElems ==
  { Link(pdf, str(<<"u">>)), Link(pdf, str(<<"v">>)), Link(pdf, None),
    Link(None, str(<<"w">>)), Link(str(<<"d", "o", "i">>), str(<<"x">>)) }

GoodChildren(authors, links) ==
  MkEntry(<<TextElem("id", LegacyIdFull)>>,
          <<TextElem("title", str(<<" ", "a", "\n", "b", " ">>))>>,
          <<TextElem("summary", str(<<"s", "\n">>))>>,
          <<TextElem("published", str(<<"2", "0", "0", "3">>))>>,
          authors, links)

\* The entries handed to _parse_entry: every combination of the mandatory
\* children with at most one author and one link, and, on an entry whose
\* mandatory children are all there, every list of authors and every list
\* of links.
Entries ==
  { MkEntry(i, t, s, p, a, l) :
      i \in Optional("id", IdTexts), t \in Optional("title", TitleTexts),
      s \in Optional("summary", SummaryTexts),
      p \in Optional("published", PublishedTexts),
      a \in SeqsUpTo(AuthorElems, 1), l \in SeqsUpTo(LinkElems, 1) }
  \cup
  { GoodChildren(a, l) :
      a \in SeqsUpTo(AuthorElems, MaxAuthors), l \in SeqsUpTo(LinkElems, 1) }
  \cup
  { GoodChildren(a, l) :
      a \in SeqsUpTo(AuthorElems, 1), l \in SeqsUpTo(LinkElems, MaxLinks) }

Texts == {str(cs) : cs \in SeqsUpTo({"a", " ", "\n", "\t"}, MaxTextLen)}

\* The entries a feed is made of.
GoodId == <<TextElem("id", str(<<"a", "/", "b">>))>>

GoodTitle == <<TextElem("title", str(<<" ", "a", "\n", "b", " ">>))>>

GoodSummary == <<TextElem("summary", str(<<"s">>))>>

GoodPublished == <<TextElem("published", str(<<"2", "0", "0", "3">>))>>

AuthorA == Author(<<TextElem("name", str(<<"A">>))>>)

AuthorB == Author(<<TextElem("name", str(<<"B">>))>>)

FeedEntries ==
  { MkEntry(GoodId, GoodTitle, GoodSummary, GoodPublished,
            <<AuthorA, AuthorB>>, <<Link(pdf, str(<<"u">>))>>),
    MkEntry(<<TextElem("id", str(<<"c">>))>>, GoodTitle, GoodSummary,
            GoodPublished, <<>>, <<>>),
    MkEntry(GoodId, <<>>, GoodSummary, GoodPublished, <<AuthorA>>, <<>>),
    MkEntry(<<TextElem("id", None)>>, GoodTitle, GoodSummary, GoodPublished,
            <<>>, <<>>),
    MkEntry(GoodId, GoodTitle, GoodSummary, <<TextElem("published", None)>>,
            <<AuthorA>>, <<>>),
    MkEntry(GoodId, GoodTitle, GoodSummary, GoodPublished,
            <<AuthorA, Author(<<TextElem("name", None)>>)>>,
            <<Link(pdf, None)>>) }

Responses ==
  {Failure("URLError"), Failure("UnicodeDecodeError"), Failure("ParseError")}
  \cup {Feed(es) : es \in SeqsUpTo(FeedEntries, MaxEntries)}

Queries == {str(cs) : cs \in SeqsUpTo({"a", " ", ":", Surrogate}, MaxQueryLen)}

relevance == str(<<"r", "e", "l", "e", "v", "a", "n", "c", "e">>)

submittedDate == str(<<"s", "u", "b", "m", "i", "t", "t", "e", "d", "D", "a", "t", "e">>)

\* The values --sort accepts (main.py line 14).
SortChoices == {relevance, str(<<"l", "a", "s", "t", "U", "p", "d", "a", "t", "e", "d", "D", "a", "t", "e">>), submittedDate}

SortBys == {relevance, submittedDate, str(<<Surrogate>>)}

MaxResultsChoices == {1, 10}

ArxivIds == {str(cs) : cs \in SeqsUpTo({"a", "/", Surrogate}, MaxQueryLen)}

(***************************************************************************)
(* The state machine.  Each action is one whole call.                      *)
(***************************************************************************)
Idle ==
  /\ call = "none" /\ steps = 0
  /\ request = None /\ ret = None /\ raised = FALSE /\ out = <<>>

NoText == text = None

NoEntry == entry = None

NoClient ==
  /\ query = None /\ sort_by = None /\ max_results = None /\ arxiv_id = None
  /\ response = None

\* A str to normalize.
InitNorm == Idle /\ text \in Texts /\ NoEntry /\ NoClient

\* An entry element to parse.
InitEntry == Idle /\ NoText /\ entry \in Entries /\ NoClient

\* The arguments of a search or of a lookup, and the answer of the network.
Init ==
  /\ Idle /\ NoText /\ NoEntry
  /\ response \in Responses
  /\ \/ /\ query \in Queries /\ sort_by \in SortBys
        /\ max_results \in MaxResultsChoices /\ arxiv_id = None
     \/ /\ arxiv_id \in ArxivIds
        /\ query = None /\ sort_by = None /\ max_results = None

\* arxiv_http_client.py lines 14-15, applied to the text and then to its
\* own result
normalize_text ==
  /\ text # None /\ steps < 2
  /\ call' = "normalize" /\ steps' = steps + 1
  /\ ret' = normalize(IF steps = 0 THEN text ELSE ret)
  /\ UNCHANGED <<text, entry, query, sort_by, max_results, arxiv_id,
                 response, request, raised, out>>

parse_entry ==
  /\ entry # None /\ steps = 0
  /\ call' = "_parse_entry" /\ steps' = 1
  /\ ret' = _parse_entry(entry)
  /\ UNCHANGED <<text, entry, query, sort_by, max_results, arxiv_id,
                 response, request, raised, out>>

\* The outcome of search_papers: line 43 raises outside the try block, any
\* exception of lines 46-48 is caught at line 54.
search_outcome ==
  LET params == search_params(query, sort_by, max_results)
  IN IF urlencode_raises(params)
     THEN [request |-> None, ret |-> None, raised |-> TRUE]
     ELSE [request |-> str(base_url \o urlencode(params)),
           ret |-> IF response.kind = "feed"
                   THEN search_results(response.entries) ELSE list(<<>>),
           raised |-> FALSE]

\* The outcome of get_paper_details: line 61 raises outside the try block,
\* any exception of lines 64-66 is caught at line 70.
details_outcome ==
  LET params == details_params(arxiv_id)
  IN IF urlencode_raises(params)
     THEN [request |-> None, ret |-> None, raised |-> TRUE]
     ELSE [request |-> str(base_url \o urlencode(params)),
           ret |-> IF response.kind = "feed"
                   THEN details_result(response.entries) ELSE None,
           raised |-> FALSE]

search_papers ==
  /\ query # None /\ steps = 0
  /\ call' = "search_papers" /\ steps' = 1
  /\ request' = search_outcome.request
  /\ ret' = search_outcome.ret
  /\ raised' = search_outcome.raised
  /\ UNCHANGED <<text, entry, query, sort_by, max_results, arxiv_id,
                 response, out>>

get_paper_details ==
  /\ arxiv_id # None /\ steps = 0
  /\ call' = "get_paper_details" /\ steps' = 1
  /\ request' = details_outcome.request
  /\ ret' = details_outcome.ret
  /\ raised' = details_outcome.raised
  /\ UNCHANGED <<text, entry, query, sort_by, max_results, arxiv_id,
                 response, out>>

\* main.py lines 23-38.  A lone surrogate in the query makes print raise
\* UnicodeEncodeError at line 24 when standard output encodes strictly, and
\* otherwise search_papers raise it at line 25.
main_search ==
  /\ query # None /\ sort_by \in SortChoices /\ steps = 0
  /\ call' = "main_search" /\ steps' = 1
  /\ request' = search_outcome.request
  /\ ret' = search_outcome.ret
  /\ IF search_outcome.raised
     THEN /\ raised' = TRUE
          /\ out' \in {<<>>, <<search_banner>>}
     ELSE LET papers == search_outcome.ret.items
              shown == render_papers(papers, 0)
          IN IF papers # <<>>
             THEN /\ raised' = shown.raised
                  /\ out' = <<search_banner,
                              Line("Found {} paper(s):",
                                   <<digits(Len(papers))>>)>> \o shown.lines
             ELSE /\ raised' = FALSE
                  /\ out' = <<search_banner, search_not_found>>
  /\ UNCHANGED <<text, entry, query, sort_by, max_results, arxiv_id, response>>

\* main.py lines 40-53
main_get ==
  /\ arxiv_id # None /\ steps = 0
  /\ call' = "main_get" /\ steps' = 1
  /\ request' = details_outcome.request
  /\ ret' = details_outcome.ret
  /\ IF details_outcome.raised
     THEN /\ raised' = TRUE
          /\ out' \in {<<>>, <<details_banner>>}
     ELSE LET paper == details_outcome.ret
          IN IF paper # None
             THEN /\ raised' = render_details(paper).raised
                  /\ out' = <<details_banner>> \o render_details(paper).lines
             ELSE /\ raised' = FALSE
                  /\ out' = <<details_banner, details_not_found>>
  /\ UNCHANGED <<text, entry, query, sort_by, max_results, arxiv_id, response>>

NextNorm == normalize_text

NextEntry == parse_entry

Next == search_papers \/ get_paper_details \/ main_search \/ main_get

SpecNorm == InitNorm /\ [][NextNorm]_vars

SpecEntry == InitEntry /\ [][NextEntry]_vars

Spec == Init /\ [][Next]_vars

(***************************************************************************)
(* The properties.                                                         *)
(***************************************************************************)
Mandatory == {"id", "title", "summary", "published"}

\* The element is absent, or present without text.
Missing(e, tag) == find(e, tag) = None \/ find(e, tag).text = None

HasAllMandatory(e) == \A tag \in Mandatory : ~Missing(e, tag)

Parsed == call = "_parse_entry"

\* The characters after the last "/" (all of them when there is none).
AfterLastSlash(cs) ==
  LET slashes == {i \in 1..Len(cs) : cs[i] = "/"}
      last == IF slashes = {} THEN 0
              ELSE CHOOSE i \in slashes : \A j \in slashes : j <= i
  IN SubSeq(cs, last + 1, Len(cs))

\* The k-th smallest member of a set of positions.
Kth(keep, k) == CHOOSE i \in keep : Cardinality({j \in keep : j <= i}) = k

\* seq lists val of the elements of src at the positions of keep, one per
\* position, in increasing order of position.
IsOrderedImage(seq, src, keep, val(_)) ==
  /\ Len(seq) = Cardinality(keep)
  /\ \A k \in 1..Len(seq) : seq[k] = val(src[Kth(keep, k)])

\* C1: an entry with a mandatory field missing (element absent, or present
\* without text) produces no record, and no record is emitted with a
\* mandatory field unset.
C1_NoRecordWithoutMandatory ==
  Parsed =>
    /\ (~HasAllMandatory(entry) => ret = None)
    /\ (ret # None =>
          /\ ret.arxiv_id # None /\ ret.title # None
          /\ ret.summary # None /\ ret.published_date # None)

\* C2: search_papers never raises: whatever fails, URL construction
\* included, it returns a list, and the empty list when the request or the
\* parse of the response failed.
C2_SearchNeverRaises ==
  call = "search_papers" =>
    /\ ~raised
    /\ ret # None /\ ret.type = "list"
    /\ (response.kind # "feed" => ret = list(<<>>))

\* C3: once its request is made, get_paper_details does not raise and
\* returns the parse of the first entry of the feed, whatever follows it;
\* it returns None when the request or the XML parse fails, when the feed
\* has no entry, and when the first entry fails to parse.
C3_DetailsFirstEntryOnly ==
  (call = "get_paper_details" /\ request # None) =>
    /\ ~raised
    /\ (response.kind # "feed" => ret = None)
    /\ (response.kind = "feed" /\ response.entries = <<>> => ret = None)
    /\ (response.kind = "feed" /\ response.entries # <<>> =>
          ret = _parse_entry(response.entries[1]))

\* A lookup whose first entry fails to parse and whose second entry is
\* well-formed has returned None.
C3_Witness ==
  /\ call = "get_paper_details" /\ ~raised /\ ret = None
  /\ response.kind = "feed" /\ Len(response.entries) >= 2
  /\ ~HasAllMandatory(response.entries[1])
  /\ HasAllMandatory(response.entries[2])

\* C4: on a feed, search_papers returns the records of the entries that
\* parse, one per such entry, in feed order, and no more records than the
\* feed has entries.
C4_SearchResultsInFeedOrder ==
  (call = "search_papers" /\ request # None /\ response.kind = "feed") =>
    /\ ret.type = "list"
    /\ Len(ret.items) <= Len(response.entries)
    /\ IsOrderedImage(ret.items, response.entries,
                      {i \in 1..Len(response.entries) :
                         _parse_entry(response.entries[i]) # None},
                      _parse_entry)

\* A search over a feed whose first entry fails to parse and whose second
\* entry parses has returned one record.
C4_Witness ==
  /\ call = "search_papers" /\ ~raised
  /\ response.kind = "feed" /\ Len(response.entries) = 2
  /\ ~HasAllMandatory(response.entries[1])
  /\ HasAllMandatory(response.entries[2])
  /\ Len(ret.items) = 1

\* C5: the arxiv_id of an emitted record is the part of the identifier text
\* after its last "/", and so contains no "/".
C5_ArxivIdAfterLastSlash ==
  (Parsed /\ ret # None) =>
    /\ ret.arxiv_id = str(AfterLastSlash(find(entry, "id").text.chars))
    /\ \A i \in 1..Len(ret.arxiv_id.chars) : ret.arxiv_id.chars[i] # "/"

\* A record emitted for an identifier with several "/".
C5_Witness ==
  /\ Parsed /\ ret # None /\ HasAllMandatory(entry)
  /\ find(entry, "id").text = LegacyIdFull
  /\ ret.arxiv_id = str(<<"0", "3", "0", "7", "0", "1", "5", "v", "1">>)

\* C6: the record of the legacy identifier
\* http://arxiv.org/abs/hep-ex/0307015v1 has the arxiv_id hep-ex/0307015v1.
C6_LegacyIdKeepsArchive ==
  (Parsed /\ ret # None /\ find(entry, "id").text = LegacyIdFull) =>
    ret.arxiv_id = str(<<"h", "e", "p", "-", "e", "x", "/", "0", "3", "0", "7", "0", "1", "5", "v", "1">>)

\* C7: the pdf_url of an emitted record is a str: the href of the first link
\* whose title is "pdf", or the empty str when there is no such link.
C7_PdfUrlIsStr ==
  (Parsed /\ ret # None) =>
    LET links == findall(entry, "link")
        pdfs == {i \in 1..Len(links) : get(links[i], "title") = pdf}
    IN /\ ret.pdf_url.type = "str"
       /\ (pdfs = {} => ret.pdf_url = str(<<>>))
       /\ \A i \in pdfs :
            (\A j \in pdfs : i <= j) => ret.pdf_url = get(links[i], "href")

NameText(author) == find(author, "name").text

\* C8: the authors of an emitted record are the name texts of the author
\* children that have a name child, in document order; an author without a
\* name child is skipped and does not discard the entry.
C8_AuthorsAreNamedInOrder ==
  Parsed =>
    /\ (HasAllMandatory(entry) => ret # None)
    /\ (ret # None =>
          /\ ret.authors.type = "list"
          /\ IsOrderedImage(ret.authors.items, findall(entry, "author"),
                            {i \in 1..Len(findall(entry, "author")) :
                               find(findall(entry, "author")[i], "name") # None},
                            NameText))

\* An author without a name child between two named authors has been skipped.
C8_Witness ==
  /\ Parsed /\ ret # None
  /\ Len(findall(entry, "author")) = 3
  /\ find(findall(entry, "author")[2], "name") = None
  /\ ret.authors = list(<<str(<<"A">>), str(<<"B">>)>>)

\* C9: normalization is idempotent (a second application changes nothing),
\* and a normalized text has no newline and no whitespace at either end.
C9_NormalizeIdempotent ==
  /\ [](steps >= 1 =>
          /\ \A i \in 1..Len(ret.chars) : ret.chars[i] # "\n"
          /\ ret.chars # <<>> =>
               /\ ret.chars[1] \notin Whitespace
               /\ ret.chars[Len(ret.chars)] \notin Whitespace)
  /\ [][steps >= 1 => ret' = ret]_vars

\* A text with whitespace around and a newline inside, normalized twice.
C9_Witness ==
  /\ steps = 2
  /\ text = str(<<"\n", "a", "\n", "a">>)
  /\ ret = str(<<"a", " ", "a">>)

\* C10: the dispatcher renders whatever the client returns without an
\* uncaught exception, and prints the not-found message for an empty or
\* absent result.
C10_DispatcherRenders ==
  (call \in {"main_search", "main_get"} /\ request # None) =>
    /\ ~raised
    /\ (call = "main_search" /\ ret = list(<<>>) =>
          out[Len(out)] = search_not_found)
    /\ (call = "main_get" /\ ret = None => out[Len(out)] = details_not_found)

====
